---- MODULE Spec2Model ----
(***************************************************************************)
(* Model of convert_csv.py: the conversion of one or two CSV tables        *)
(* (movies, TV shows) into one SensCritique import table.                  *)
(*                                                                         *)
(* Texts (CSV cells, exception messages) are sequences of one-character    *)
(* strings, so that strip(), int(), float() and the substring test of the  *)
(* exception handler are computed character by character.                  *)
(***************************************************************************)
EXTENDS Integers, Sequences, FiniteSets, TLC

(***************************************************************************)
(* Bounds of the model.                                                    *)
(***************************************************************************)
\* Total number of data rows the csv readers deliver in one run.
MaxRows == 2

(***************************************************************************)
(* Text helpers: str.strip(), the `in` substring test.                     *)
(***************************************************************************)
WhiteSpace == {" ", "\t", "\n"}

Digits == <<"0", "1", "2", "3", "4", "5", "6", "7", "8", "9">>

IsDigit(c) == \E i \in 1..10 : Digits[i] = c

DigitVal(c) == (CHOOSE i \in 1..10 : Digits[i] = c) - 1

RECURSIVE LStrip(_)
LStrip(s) ==
    IF s # <<>> /\ Head(s) \in WhiteSpace THEN LStrip(Tail(s)) ELSE s

RECURSIVE RStrip(_)
RStrip(s) ==
    IF s # <<>> /\ s[Len(s)] \in WhiteSpace
    THEN RStrip(SubSeq(s, 1, Len(s) - 1))
    ELSE s

\* str.strip()
Strip(s) == RStrip(LStrip(s))

\* `needle in haystack` on str
Contains(haystack, needle) ==
    \E i \in 0..(Len(haystack) - Len(needle)) :
        SubSeq(haystack, i + 1, i + Len(needle)) = needle

(***************************************************************************)
(* int(text): optional sign, then one or more decimal digits.              *)
(* (Underscore digit separators and non-ASCII digits are not modelled.)    *)
(***************************************************************************)
AllDigits(s) == s # <<>> /\ \A i \in 1..Len(s) : IsDigit(s[i])

RECURSIVE DecimalValue(_)
DecimalValue(s) ==
    IF s = <<>> THEN 0
    ELSE 10 * DecimalValue(SubSeq(s, 1, Len(s) - 1)) + DigitVal(s[Len(s)])

HasSign(s) == s # <<>> /\ Head(s) \in {"+", "-"}

Unsigned(s) == IF HasSign(s) THEN Tail(s) ELSE s

SignOf(s) == IF s # <<>> /\ Head(s) = "-" THEN -1 ELSE 1

\* int(text): ok = FALSE stands for ValueError
ParseInt(text) ==
    LET s == Strip(text)
        body == Unsigned(s)
    IN  IF AllDigits(body)
        THEN [ok |-> TRUE, val |-> SignOf(s) * DecimalValue(body)]
        ELSE [ok |-> FALSE, val |-> 0]

(***************************************************************************)
(* float(text): optional sign, then digits with an optional fraction, or   *)
(* one of nan, inf, infinity.  A finite value is the exact fraction        *)
(* num / den (den a power of ten); exponents and upper-case spellings are  *)
(* not modelled.  kind = "error" stands for ValueError.                    *)
(***************************************************************************)
RECURSIVE Pow10(_)
Pow10(n) == IF n = 0 THEN 1 ELSE 10 * Pow10(n - 1)

DotPos(s) == IF \E i \in 1..Len(s) : s[i] = "."
             THEN CHOOSE i \in 1..Len(s) : s[i] = "."
             ELSE 0

IsDigitsOrEmpty(s) == \A i \in 1..Len(s) : IsDigit(s[i])

NaNText == <<"n", "a", "n">>

InfTexts == {<<"i", "n", "f">>, <<"i", "n", "f", "i", "n", "i", "t", "y">>}

ParseFloat(text) ==
    LET s == Strip(text)
        body == Unsigned(s)
        sign == SignOf(s)
        dot == DotPos(body)
        ip == IF dot = 0 THEN body ELSE SubSeq(body, 1, dot - 1)
        fp == IF dot = 0 THEN <<>> ELSE SubSeq(body, dot + 1, Len(body))
    IN  IF body = NaNText
        THEN [kind |-> "nan", num |-> 0, den |-> 1]
        ELSE IF body \in InfTexts
        THEN [kind |-> "inf", num |-> sign, den |-> 1]
        ELSE IF /\ IsDigitsOrEmpty(ip)
                /\ IsDigitsOrEmpty(fp)
                /\ Len(ip) + Len(fp) > 0
        THEN [kind |-> "num",
              num |-> sign * (DecimalValue(ip) * Pow10(Len(fp)) + DecimalValue(fp)),
              den |-> Pow10(Len(fp))]
        ELSE [kind |-> "error", num |-> 0, den |-> 1]

\* rating_float > 0 (nan compares false, inf is positive, -inf is not)
IsPositive(f) == f.kind \in {"num", "inf"} /\ f.num > 0

\* round(x) of a finite float: round half to even
Round(f) ==
    LET q == f.num \div f.den
        r == f.num % f.den
    IN  IF 2 * r < f.den THEN q
        ELSE IF 2 * r > f.den THEN q + 1
        ELSE IF q % 2 = 0 THEN q ELSE q + 1

(***************************************************************************)
(* Exceptions raised while a row is processed, with their messages.        *)
(* The row number and the formatted float of the messages are left out.    *)
(***************************************************************************)
NoException == [type |-> "none", msg |-> <<>>]

ValueError(msg) == [type |-> "ValueError", msg |-> msg]

OverflowError(msg) == [type |-> "OverflowError", msg |-> msg]

\* repr() of a str without quotes in it
Repr(s) == <<"'">> \o s \o <<"'">>

\* float(): "could not convert string to float: '<text>'"
FloatErrorMessage(text) ==
    <<"c", "o", "u", "l", "d", " ", "n", "o", "t", " ", "c", "o", "n", "v",
      "e", "r", "t", " ", "s", "t", "r", "i", "n", "g", " ", "t", "o", " ",
      "f", "l", "o", "a", "t", ":", " ">> \o Repr(text)

\* line 68: "Row N: Missing 'year' for title '<title>'"
MissingYearMessage(title) ==
    <<"R", "o", "w", " ", ":", " ", "M", "i", "s", "s", "i", "n", "g", " ",
      "'", "y", "e", "a", "r", "'", " ", "f", "o", "r", " ", "t", "i", "t",
      "l", "e", " ">> \o Repr(title)

\* lines 83-84: "Row N: userRating is X but viewCount is 0. This is ..."
InconsistencyMessage ==
    <<"R", "o", "w", " ", ":", " ", "u", "s", "e", "r", "R", "a", "t", "i",
      "n", "g", " ", "i", "s", " ", " ", "b", "u", "t", " ", "v", "i", "e",
      "w", "C", "o", "u", "n", "t", " ", "i", "s", " ", "0", ".", " ", "T",
      "h", "i", "s", " ", "i", "s", " ", "i", "n", "c", "o", "n", "s", "i",
      "s", "t", "e", "n", "t", " ", "-", " ", "h", "o", "w", " ", "c", "a",
      "n", " ", "s", "o", "m", "e", "t", "h", "i", "n", "g", " ", "b", "e",
      " ", "r", "a", "t", "e", "d", " ", "i", "f", " ", "n", "o", "t", " ",
      "v", "i", "e", "w", "e", "d", "?">>

\* round(nan)
NaNRoundMessage ==
    <<"c", "a", "n", "n", "o", "t", " ", "c", "o", "n", "v", "e", "r", "t",
      " ", "f", "l", "o", "a", "t", " ", "N", "a", "N", " ", "t", "o", " ",
      "i", "n", "t", "e", "g", "e", "r">>

\* round(inf)
InfRoundMessage ==
    <<"c", "a", "n", "n", "o", "t", " ", "c", "o", "n", "v", "e", "r", "t",
      " ", "f", "l", "o", "a", "t", " ", "i", "n", "f", "i", "n", "i", "t",
      "y", " ", "t", "o", " ", "i", "n", "t", "e", "g", "e", "r">>

\* line 87: the text the handler looks for in str(e)
ValidationMarker ==
    <<"u", "s", "e", "r", "R", "a", "t", "i", "n", "g", " ", "i", "s">>

(***************************************************************************)
(* process_csv_file, the body of the row loop (lines 55-119).              *)
(***************************************************************************)
\* Faulty variant of ConvertViewCount: an unparsable viewCount counts as one view.
ConvertViewCountAsViewed(view_count) ==
    LET p == ParseInt(view_count)
    IN  [value |-> IF p.ok THEN p.val ELSE 1, warned |-> ~p.ok]

\* lines 70-75: view_count_int, and whether the warning was printed
ConvertViewCount(view_count) ==
    LET p == ParseInt(view_count)
    IN  [value |-> IF p.ok THEN p.val ELSE 0, warned |-> ~p.ok]

\* Faulty variant of IsInconsistent: the consistency check is left out.
IsInconsistentNever(rating_float, view_count_int) == FALSE

\* line 82
IsInconsistent(rating_float, view_count_int) ==
    IsPositive(rating_float) /\ view_count_int = 0

\* lines 80-85, the body of the inner try
TryRating(user_rating, view_count_int) ==
    LET rating_float == ParseFloat(user_rating)
    IN  IF rating_float.kind = "error"
        THEN [raised |-> ValueError(FloatErrorMessage(user_rating)), rating |-> 0]
        ELSE IF IsInconsistent(rating_float, view_count_int)
        THEN [raised |-> ValueError(InconsistencyMessage), rating |-> 0]
        ELSE IF rating_float.kind = "nan"
        THEN [raised |-> ValueError(NaNRoundMessage), rating |-> 0]
        ELSE IF rating_float.kind = "inf"
        THEN [raised |-> OverflowError(InfRoundMessage), rating |-> 0]
        ELSE [raised |-> NoException, rating |-> Round(rating_float)]

\* Faulty variant of IsReRaised: the handler takes every ValueError for a parse
\* failure.
IsReRaisedNever(e) == FALSE

\* lines 87-88: the handler re-raises what it takes for a validation error
IsReRaised(e) == Contains(e.msg, ValidationMarker)

\* lines 90 and 92
DefaultRating == 5

\* lines 78-92
ConvertUserRating(user_rating, view_count_int) ==
    IF user_rating = <<>>
    THEN [raised |-> NoException, rating |-> DefaultRating, warned |-> FALSE]
    ELSE LET t == TryRating(user_rating, view_count_int)
         IN  IF t.raised.type = "ValueError"
             THEN IF IsReRaised(t.raised)
                  THEN [raised |-> t.raised, rating |-> 0, warned |-> FALSE]
                  ELSE [raised |-> NoException, rating |-> DefaultRating,
                        warned |-> TRUE]
             ELSE [raised |-> t.raised, rating |-> t.rating, warned |-> FALSE]

\* 'true' if flag else 'false'
BoolText(flag) == IF flag THEN "true" ELSE "false"

\* line 95
IsWishlisted(view_count_int) == view_count_int = 0

\* line 96
IsRecommended(user_rating, rating) ==
    IF user_rating # <<>> THEN rating >= 8 ELSE FALSE

\* Faulty variant of NeedsConfirmation: unviewed rows are prompted for too.
NeedsConfirmationFromZero(view_count_int) == view_count_int >= 0

\* line 100
NeedsConfirmation(view_count_int) == view_count_int > 0

\* lines 109-117
MakeRecord(universe, title, year, rating, is_wishlisted, is_recommended, is_done) ==
    [universe |-> universe,
     title |-> title,
     release_date |-> year,
     rating |-> rating,
     is_wishlisted |-> BoolText(is_wishlisted),
     is_recommended |-> BoolText(is_recommended),
     is_done |-> BoolText(is_done)]

NoRecord == MakeRecord("", <<>>, <<>>, 0, FALSE, FALSE, FALSE)

\* warnings printed on the way by lines 74 and 89
WarningsOf(vc, r) ==
    (IF vc.warned THEN <<"Warning: Invalid viewCount">> ELSE <<>>)
    \o (IF r.warned THEN <<"Warning: Invalid userRating">> ELSE <<>>)

\* Faulty variant of RowOutcome: the year is checked before the title.
RowOutcomeYearFirst(title, user_rating, vc, r, year, universe) ==
    IF year = <<>>
    THEN [kind |-> "error", raised |-> ValueError(MissingYearMessage(title)),
          warnings |-> <<>>, record_ |-> NoRecord]
    ELSE IF title = <<>>
    THEN [kind |-> "skip", raised |-> NoException, warnings |-> <<>>,
          record_ |-> NoRecord]
    ELSE IF r.raised.type # "none"
    THEN [kind |-> "error", raised |-> r.raised, warnings |-> WarningsOf(vc, r),
          record_ |-> NoRecord]
    ELSE [kind |-> IF NeedsConfirmation(vc.value) THEN "confirm" ELSE "record",
          raised |-> NoException,
          warnings |-> WarningsOf(vc, r),
          record_ |-> MakeRecord(universe, title, year, r.rating,
                                 IsWishlisted(vc.value),
                                 IsRecommended(user_rating, r.rating),
                                 FALSE)]

\* Lines 62-100 for one row, given its stripped cells, view_count_int (vc)
\* and the outcome of lines 78-92 (r): what the row comes to before any
\* prompt.
\*   kind "skip": continue (line 64); "error": an exception reached line 121;
\*   "confirm": the prompt of line 102 is due; "record": line 119 is due.
\* record_ has is_done = False.
RowOutcome(title, user_rating, vc, r, year, universe) ==
    IF title = <<>>
    THEN [kind |-> "skip", raised |-> NoException, warnings |-> <<>>,
          record_ |-> NoRecord]
    ELSE IF year = <<>>
    THEN [kind |-> "error", raised |-> ValueError(MissingYearMessage(title)),
          warnings |-> <<>>, record_ |-> NoRecord]
    ELSE IF r.raised.type # "none"
    THEN [kind |-> "error", raised |-> r.raised, warnings |-> WarningsOf(vc, r),
          record_ |-> NoRecord]
    ELSE [kind |-> IF NeedsConfirmation(vc.value) THEN "confirm" ELSE "record",
          raised |-> NoException,
          warnings |-> WarningsOf(vc, r),
          record_ |-> MakeRecord(universe, title, year, r.rating,
                                 IsWishlisted(vc.value),
                                 IsRecommended(user_rating, r.rating),
                                 FALSE)]

\* lines 70-92 on the stripped cells
RowBody(title, user_rating, vc, year, universe) ==
    RowOutcome(title, user_rating, vc, ConvertUserRating(user_rating, vc.value),
               year, universe)

\* lines 57-100
RowResult(row, universe) ==
    RowBody(Strip(row.title), Strip(row.userRating),
            ConvertViewCount(Strip(row.viewCount)), Strip(row.year), universe)

(***************************************************************************)
(* validate_csv_file (lines 17-44).  What a path names is found out when   *)
(* the table is validated:                                                 *)
(*   "absent"      nothing                     (line 20)                   *)
(*   "directory"   something that is no file   (line 24)                   *)
(*   "unreadable"  a file open() or the reader fails on  (line 40)         *)
(*   "no_columns"  a CSV file lacking a required column  (line 36)         *)
(*   "csv"         a CSV file with the four required columns               *)
(***************************************************************************)
PathKinds == {"absent", "directory", "unreadable", "no_columns", "csv"}

\* Faulty variant of validate_csv_file: the columns are not checked.
validate_csv_file_any_columns(file_path) == file_path \in {"csv", "no_columns"}

validate_csv_file(file_path) == file_path = "csv"

\* What validate_csv_file prints before it returns False.
ValidationMessage(file_path) ==
    CASE file_path = "absent" -> "Error: file does not exist"
      [] file_path = "directory" -> "Error: not a file"
      [] file_path = "unreadable" -> "Error reading file"
      [] file_path = "no_columns" -> "Error: missing required columns"

(***************************************************************************)
(* Inputs: the command line and the cells of the rows the readers yield.   *)
(***************************************************************************)
\* args.movies / args.tv_shows: None, the empty string, or a path
NoArg == "None"

EmptyPath == ""

ArgValues == {NoArg, EmptyPath, "path"}

\* `if args.movies:` -- None and '' are falsy
Truthy(arg) == arg \notin {NoArg, EmptyPath}

TitleA == <<"A">>

TitleB == <<" ", "B", " ">>

Year2010 == <<"2", "0", "1", "0">>

BlankYears == {<<>>, <<" ">>}

ViewCounts == {<<>>, <<"0">>, <<"3">>, <<"-", "1">>}

UserRatings ==
    {<<>>, <<"7", ".", "5">>, <<"0">>, <<"x">>, <<"n", "a", "n">>,
     <<"i", "n", "f">>, ValidationMarker}

\* The rows a reader may yield: every userRating with every viewCount under
\* a title and a year; rows without a title, rated and unviewed, with and
\* without a year; rows without a year; and rows under a second title.
Rows ==
    [title : {TitleA}, userRating : UserRatings, viewCount : ViewCounts,
     year : {Year2010}]
    \cup {[title |-> <<>>, userRating |-> <<"9">>, viewCount |-> <<"0">>,
           year |-> <<>>],
          [title |-> <<" ">>, userRating |-> <<"9">>, viewCount |-> <<"0">>,
           year |-> Year2010]}
    \cup [title : {TitleB}, userRating : {<<>>}, viewCount : {<<"3">>},
          year : BlankYears]
    \cup [title : {TitleB}, userRating : {<<>>},
          viewCount : {<<"0">>, <<"3">>}, year : {Year2010}]

\* lines 188 and 198: the universe each table is processed with
Universe(table) == IF table = "movies" THEN "movie" ELSE "tvshow"

\* The destination before the run: no file, or a file of an earlier run.
NoFile == [exists |-> FALSE, header |-> <<>>, rows |-> <<>>]

EarlierFile == [exists |-> TRUE, header |-> <<"earlier">>, rows |-> <<>>]

\* line 134
fieldnames ==
    <<"universe", "title", "release_date", "rating", "is_wishlisted",
      "is_recommended", "is_done">>

(***************************************************************************)
(* State.                                                                  *)
(***************************************************************************)
VARIABLES
    args,         \* [movies, tv_shows]: the parsed command line
    files,        \* per table, what its path was found to name
    output_file,  \* the file at args.output
    output_before,\* the file at args.output when the run began
    pc,           \* where main is: "parse_args", "validate", "process",
                  \* "confirm", "write", "exited"
    table,        \* the table main is at: "movies" or "tv_shows"
    read,         \* per table, the rows its reader has yielded so far
    records,      \* process_csv_file's records
    pending,      \* the record awaiting the operator's answer (line 102)
    all_records,  \* main's all_records
    prompts,      \* the confirmations asked so far, with their answers
    stdout,       \* what was printed, in order
    exit_status   \* the process's exit status (that of a normal end is 0)

vars == <<args, files, output_file, output_before, pc, table, read, records, pending,
          all_records, prompts, stdout, exit_status>>

Init ==
    /\ args \in [movies : ArgValues, tv_shows : ArgValues]
    /\ files = [movies |-> "unchecked", tv_shows |-> "unchecked"]
    /\ output_file \in {NoFile, EarlierFile}
    /\ output_before = output_file
    /\ pc = "parse_args"
    /\ table = "movies"
    /\ read = [movies |-> <<>>, tv_shows |-> <<>>]
    /\ records = <<>>
    /\ pending = NoRecord
    /\ all_records = <<>>
    /\ prompts = <<>>
    /\ stdout = <<>>
    /\ exit_status = 0

RowsRead == Len(read.movies) + Len(read.tv_shows)

\* enumerate(reader, start=2): the row number of the i-th data row
row_num(i) == i + 1

\* Faulty variant of Exit: sys.exit() without a status.
ExitWithoutStatus(status) ==
    /\ pc' = "exited"
    /\ exit_status' = 0

\* sys.exit(status) / parser.error
Exit(status) ==
    /\ pc' = "exited"
    /\ exit_status' = status

\* Where main goes after a table: lines 194-195 after movies, 204 after TV.
AfterTable ==
    IF table = "movies"
    THEN pc' = "validate" /\ table' = "tv_shows"
    ELSE pc' = "write" /\ table' = table

(***************************************************************************)
(* main (lines 176-208) and process_csv_file (lines 47-125).               *)
(***************************************************************************)
\* lines 179-182
ParseArgs ==
    /\ pc = "parse_args"
    /\ IF ~Truthy(args.movies) /\ ~Truthy(args.tv_shows)
       THEN /\ Exit(2)
            /\ stdout' = Append(stdout, <<"usage error", "", 0>>)
            /\ UNCHANGED table
       ELSE /\ pc' = "validate"
            /\ table' = "movies"
            /\ UNCHANGED <<stdout, exit_status>>
    /\ UNCHANGED <<args, files, output_file, output_before, read, records, pending,
                   all_records, prompts>>

\* lines 185 and 195 when the table was not given
SkipTable ==
    /\ pc = "validate"
    /\ ~Truthy(args[table])
    /\ AfterTable
    /\ UNCHANGED <<args, files, output_file, output_before, read, records, pending,
                   all_records, prompts, stdout, exit_status>>

\* lines 186-188 and 196-198: the table is valid, process_csv_file begins
ValidateTable ==
    /\ pc = "validate"
    /\ Truthy(args[table])
    /\ \E kind \in PathKinds :
        /\ validate_csv_file(kind)
        /\ files' = [files EXCEPT ![table] = kind]
    /\ pc' = "process"
    /\ records' = <<>>
    /\ stdout' = Append(stdout, <<"Processing", table, 0>>)
    /\ UNCHANGED <<args, output_file, output_before, table, read, pending,
                   all_records, prompts, exit_status>>

\* lines 191-192 and 201-202
RejectTable ==
    /\ pc = "validate"
    /\ Truthy(args[table])
    /\ \E kind \in PathKinds :
        /\ ~validate_csv_file(kind)
        /\ files' = [files EXCEPT ![table] = kind]
        /\ stdout' = Append(stdout, <<ValidationMessage(kind), table, 0>>)
    /\ Exit(1)
    /\ UNCHANGED <<args, output_file, output_before, table, read, records,
                   pending, all_records, prompts>>

WarningLines(warnings, n) == [i \in 1..Len(warnings) |-> <<warnings[i], table, n>>]

\* lines 62-123 for the row the reader has just yielded, res its RowResult
RowStep(res, n) ==
    CASE res.kind = "skip" ->
            /\ UNCHANGED <<pc, records, pending, prompts, stdout, exit_status>>
      [] res.kind = "error" ->
            /\ Exit(1)
            /\ stdout' = stdout \o WarningLines(res.warnings, n)
                             \o <<<<"Error processing row", table, n>>>>
            /\ UNCHANGED <<records, pending, prompts>>
      [] res.kind = "confirm" ->
            /\ pc' = "confirm"
            /\ pending' = res.record_
            /\ prompts' = Append(prompts,
                                 [title |-> res.record_.title,
                                  universe |-> res.record_.universe,
                                  answer |-> "awaited"])
            /\ stdout' = stdout \o WarningLines(res.warnings, n)
            /\ UNCHANGED <<records, exit_status>>
      [] res.kind = "record" ->
            /\ records' = Append(records, res.record_)
            /\ stdout' = stdout \o WarningLines(res.warnings, n)
            /\ UNCHANGED <<pc, pending, prompts, exit_status>>

\* lines 54-123: the reader yields a row and the loop body runs, up to the
\* prompt when there is one
ProcessRow ==
    /\ pc = "process"
    /\ RowsRead < MaxRows
    /\ \E row \in Rows :
        /\ read' = [read EXCEPT ![table] = Append(@, row)]
        /\ RowStep(RowResult(row, Universe(table)), row_num(Len(read[table]) + 1))
    /\ UNCHANGED <<args, files, output_file, output_before, table, all_records>>

\* lines 102-119: the operator answers, the record is appended
Confirm ==
    /\ pc = "confirm"
    /\ \E answer \in BOOLEAN :
        /\ prompts' = [prompts EXCEPT ![Len(prompts)].answer = BoolText(answer)]
        /\ records' = Append(records, [pending EXCEPT !.is_done = BoolText(answer)])
    /\ pending' = NoRecord
    /\ pc' = "process"
    /\ UNCHANGED <<args, files, output_file, output_before, table, read, all_records,
                   stdout, exit_status>>

\* Faulty variant of Extend: the records of a table are put in front.
ExtendInFront(all, recs) == recs \o all

\* lines 189 and 199: all_records.extend(...)
Extend(all, recs) == all \o recs

\* lines 125 and 189-190 / 199-200: the reader is exhausted
EndOfTable ==
    /\ pc = "process"
    /\ all_records' = Extend(all_records, records)
    /\ records' = <<>>
    /\ stdout' = Append(stdout, <<"Processed records", table, Len(records)>>)
    /\ AfterTable
    /\ UNCHANGED <<args, files, output_file, output_before, read, pending, prompts,
                   exit_status>>

\* lines 128-141
write_output_csv(recs, file) ==
    IF recs = <<>>
    THEN file
    ELSE [exists |-> TRUE, header |-> fieldnames, rows |-> recs]

\* Faulty variant of WriteOutput: the destination is opened for writing whether or
\* not there are records.
WriteOutputUnguarded ==
    /\ pc = "write"
    /\ output_file' = [exists |-> TRUE, header |-> fieldnames, rows |-> all_records]
    /\ stdout' = Append(stdout, <<"Successfully wrote", "", Len(all_records)>>)
    /\ pc' = "exited"
    /\ UNCHANGED <<args, files, output_before, table, read, records, pending,
                   all_records, prompts, exit_status>>

\* lines 205-208, and the normal end of the process
WriteOutput ==
    /\ pc = "write"
    /\ IF all_records # <<>>
       THEN /\ output_file' = write_output_csv(all_records, output_file)
            /\ stdout' = Append(stdout, <<"Successfully wrote", "", Len(all_records)>>)
       ELSE /\ stdout' = Append(stdout, <<"No records were processed.", "", 0>>)
            /\ UNCHANGED output_file
    /\ pc' = "exited"
    /\ UNCHANGED <<args, files, output_before, table, read, records, pending,
                   all_records, prompts, exit_status>>

Next ==
    \/ ParseArgs
    \/ SkipTable
    \/ ValidateTable
    \/ RejectTable
    \/ ProcessRow
    \/ Confirm
    \/ EndOfTable
    \/ WriteOutput

Spec == Init /\ [][Next]_vars

(***************************************************************************)
(* Vocabulary of the properties: what the specification says of a row,     *)
(* read off the rows the readers have yielded and off what was printed.    *)
(***************************************************************************)
\* The cells of the rows, and what strip(), int() and float() make of each
\* (tabulated once).
Cells ==
    UNION {{row.title, row.userRating, row.viewCount, row.year} : row \in Rows}

IsBlank == [text \in Cells |-> Strip(text) = <<>>]

IntOf == [text \in Cells |-> ParseInt(text)]

FloatOf == [text \in Cells |-> ParseFloat(text)]

Blank(text) == IsBlank[text]

\* the normalized viewCount of a row: its integer value, 0 when unparsable
NormalizedViewCount(row) ==
    IF IntOf[row.viewCount].ok THEN IntOf[row.viewCount].val ELSE 0

ViewCountUnparsable(row) == ~IntOf[row.viewCount].ok

\* the userRating of a row parses to a positive number
RatingPositive(row) ==
    ~Blank(row.userRating) /\ IsPositive(FloatOf[row.userRating])

\* the userRating of a row is there and fails floating-point parsing
RatingUnparsable(row) ==
    ~Blank(row.userRating) /\ FloatOf[row.userRating].kind = "error"

OriginCategory(t) == IF t = "movies" THEN "movie" ELSE "tvshow"

InvalidKinds == {"absent", "directory", "unreadable", "no_columns"}

\* the rows yielded so far, in processing order, with where they stand
Indexed(t) ==
    [i \in 1..Len(read[t]) |-> [table |-> t, index |-> i, row |-> read[t][i]]]

Processed == Indexed("movies") \o Indexed("tv_shows")

ProcessedSet == {Processed[k] : k \in 1..Len(Processed)}

Printed(line) == \E k \in 1..Len(stdout) : stdout[k] = line

\* the run was aborted by the row e ("Error processing row N in <file>")
AbortedAt(e) == Printed(<<"Error processing row", e.table, e.index + 1>>)

\* the confirmation of the row e is awaited
AwaitedAt(e) ==
    pc = "confirm" /\ e.table = table /\ e.index = Len(read[table])

\* the records produced so far, and those of one table
Emitted == all_records \o records

EmittedOf(t) == SelectSeq(Emitted, LAMBDA rec : rec.universe = OriginCategory(t))

\* the number of rows with a title among the first i rows of table t
TitledUpTo(t, i) == Cardinality({j \in 1..i : ~Blank(read[t][j].title)})

\* the row e has its record, and which one it is
HasRecord(e) ==
    /\ ~Blank(e.row.title)
    /\ ~AbortedAt(e)
    /\ ~AwaitedAt(e)
    /\ TitledUpTo(e.table, e.index) <= Len(EmittedOf(e.table))

RecordOf(e) == EmittedOf(e.table)[TitledUpTo(e.table, e.index)]

Aborted == pc = "exited" /\ exit_status # 0

(***************************************************************************)
(* C1.  Fail loud, write nothing: once a row with a title has an empty     *)
(* year or a positive rating with a view count of 0, or a supplied table   *)
(* has failed validation, the process has ended with a non-zero status;    *)
(* and a process that ended with a non-zero status has left the output    *)
(* file as it was, however many rows and tables came before.               *)
(***************************************************************************)
FatalRow(row) ==
    /\ ~Blank(row.title)
    /\ \/ Blank(row.year)
       \/ RatingPositive(row) /\ NormalizedViewCount(row) = 0

C1_FailLoudWriteNothing ==
    /\ (\/ \E e \in ProcessedSet : FatalRow(e.row)
        \/ \E t \in {"movies", "tv_shows"} : files[t] \in InvalidKinds)
       => Aborted
    /\ Aborted => output_file = output_before

\* a row of the second table aborts the run after the first table and a row
\* of the second gave records, with a file of an earlier run in place
C1_Witness ==
    /\ Aborted
    /\ output_before = EarlierFile
    /\ all_records # <<>>
    /\ Len(read.tv_shows) = 1
    /\ FatalRow(read.tv_shows[1])

(***************************************************************************)
(* C2.  As claimed: a run with a row whose userRating parses to a positive *)
(* number and whose normalized viewCount is 0 ends aborted, whatever the   *)
(* other fields of the row are.                                            *)
(***************************************************************************)
C2_AbortWhateverTheOtherFields ==
    pc = "exited" =>
        \A e \in ProcessedSet :
            (RatingPositive(e.row) /\ NormalizedViewCount(e.row) = 0)
            => exit_status # 0

(***************************************************************************)
(* C2, amended.  Every row with a title whose userRating parses to a       *)
(* positive number and whose normalized viewCount is 0 aborts the run at   *)
(* that row, whatever its year and the rows before it are.                 *)
(***************************************************************************)
C2_AbortWhenTitled ==
    \A e \in ProcessedSet :
        (/\ ~Blank(e.row.title)
         /\ RatingPositive(e.row)
         /\ NormalizedViewCount(e.row) = 0)
        => Aborted /\ AbortedAt(e)

\* a rated, unviewed row with a year aborts the run after a row gave a record
C2_Witness ==
    /\ Aborted
    /\ Len(read.movies) = 2
    /\ records # <<>>
    /\ ~Blank(read.movies[2].title)
    /\ ~Blank(read.movies[2].year)
    /\ RatingPositive(read.movies[2])
    /\ NormalizedViewCount(read.movies[2]) = 0

(***************************************************************************)
(* C3.  As claimed: every row whose viewCount fails integer parsing goes   *)
(* on with a warning and without an abort, and a record with               *)
(* is_wishlisted = true is emitted for it.  (Stated of the rows whose      *)
(* userRating is empty or parses, which leaves the handling of an          *)
(* unparsable userRating, C4, out of the question.)                        *)
(***************************************************************************)
ViewCountWarned(e) ==
    Printed(<<"Warning: Invalid viewCount", e.table, e.index + 1>>)

C3_UnparsableViewCountGivesRecord ==
    \A e \in ProcessedSet :
        (ViewCountUnparsable(e.row) /\ ~RatingUnparsable(e.row))
        => /\ ViewCountWarned(e)
           /\ ~AbortedAt(e)
           /\ HasRecord(e)
           /\ RecordOf(e).is_wishlisted = "true"

(***************************************************************************)
(* C3, amended.  For every row with a title and a year whose viewCount     *)
(* fails integer parsing, the failure is a warning and the row goes on     *)
(* with viewCount = 0: it is never prompted for, any record emitted for it *)
(* has is_wishlisted = true and is_done = false, a record is emitted when  *)
(* its userRating is empty, and the run is aborted at the row when its     *)
(* userRating parses to a positive number (the consistency check).         *)
(***************************************************************************)
C3_UnparsableViewCountIsZero ==
    \A e \in ProcessedSet :
        (/\ ~Blank(e.row.title)
         /\ ~Blank(e.row.year)
         /\ ViewCountUnparsable(e.row))
        => /\ ViewCountWarned(e)
           /\ ~AwaitedAt(e)
           /\ HasRecord(e) => /\ RecordOf(e).is_wishlisted = "true"
                              /\ RecordOf(e).is_done = "false"
           /\ Blank(e.row.userRating) => HasRecord(e)
           /\ RatingPositive(e.row) => AbortedAt(e)
           /\ AbortedAt(e) \/ HasRecord(e)

\* two rows with an unparsable viewCount: the first, unrated, has its
\* record; the second, rated 9, has aborted the run
C3_Witness ==
    /\ Len(read.movies) = 2
    /\ ViewCountUnparsable(read.movies[1])
    /\ ViewCountUnparsable(read.movies[2])
    /\ Blank(read.movies[1].userRating)
    /\ Len(records) = 1
    /\ records[1].is_wishlisted = "true"
    /\ RatingPositive(read.movies[2])
    /\ Aborted

(***************************************************************************)
(* C4.  Every row with a title and a year whose userRating is not empty    *)
(* and fails floating-point parsing, whatever its text, goes on with a     *)
(* warning and rating = 5: the run is not aborted at the row.              *)
(***************************************************************************)
RatingWarned(e) ==
    Printed(<<"Warning: Invalid userRating", e.table, e.index + 1>>)

C4_UnparsableRatingIsWarning ==
    \A e \in ProcessedSet :
        (/\ ~Blank(e.row.title)
         /\ ~Blank(e.row.year)
         /\ RatingUnparsable(e.row))
        => /\ ~AbortedAt(e)
           /\ RatingWarned(e)
           /\ HasRecord(e) => RecordOf(e).rating = 5

(***************************************************************************)
(* C5.  As claimed: a run that ends with a usage error (no table given, a  *)
(* supplied file missing or not a regular file or unreadable, required     *)
(* columns absent) has processed no row of any table and asked for no      *)
(* confirmation.                                                           *)
(***************************************************************************)
UsageErrorOn(t) == files[t] \in InvalidKinds

NoTableGiven == pc = "exited" /\ exit_status = 2

C5_UsageErrorBeforeAnyRow ==
    (NoTableGiven \/ \E t \in {"movies", "tv_shows"} : UsageErrorOn(t))
    => /\ read.movies = <<>>
       /\ read.tv_shows = <<>>
       /\ prompts = <<>>

(***************************************************************************)
(* C5, amended.  A usage error on a table is reported before the row loop  *)
(* of that table and of any later table is entered: when the run ends with *)
(* a usage error on a table, no row of that table or of a later table has  *)
(* been processed and no confirmation was asked for such a row (the rows   *)
(* of an earlier valid table have been processed, prompts included); when  *)
(* no table is given, nothing has been processed at all.                   *)
(***************************************************************************)
PromptsOf(t) == SelectSeq(prompts, LAMBDA q : q.universe = OriginCategory(t))

C5_UsageErrorBeforeOwnRows ==
    /\ NoTableGiven
       => /\ read.movies = <<>> /\ read.tv_shows = <<>> /\ prompts = <<>>
          /\ files.movies = "unchecked" /\ files.tv_shows = "unchecked"
    /\ UsageErrorOn("movies")
       => /\ Aborted
          /\ read.movies = <<>> /\ read.tv_shows = <<>> /\ prompts = <<>>
          /\ files.tv_shows = "unchecked"
    /\ UsageErrorOn("tv_shows")
       => /\ Aborted
          /\ read.tv_shows = <<>>
          /\ PromptsOf("tv_shows") = <<>>

\* the TV table fails validation after rows of the movies table were
\* processed and a confirmation was answered
C5_Witness ==
    /\ UsageErrorOn("tv_shows")
    /\ Aborted
    /\ read.movies # <<>>
    /\ prompts # <<>>
    /\ all_records # <<>>

(***************************************************************************)
(* C6.  A row whose title is empty after trimming is skipped: the step     *)
(* that processes it produces no record, raises no error, asks for no      *)
(* confirmation, prints nothing and leaves the loop at the next row, also  *)
(* when the year of the row is empty.                                      *)
(***************************************************************************)
RowYielded(row) ==
    /\ pc = "process"
    /\ read' = [read EXCEPT ![table] = Append(@, row)]

AcceptedOf(t) == SelectSeq(Indexed(t), LAMBDA e : ~Blank(e.row.title))

Accepted == AcceptedOf("movies") \o AcceptedOf("tv_shows")

Successful == pc = "exited" /\ exit_status = 0

RecordIsOf(rec, e) ==
    /\ rec.universe = OriginCategory(e.table)
    /\ rec.title = Strip(e.row.title)
    /\ rec.release_date = Strip(e.row.year)
    /\ rec.is_wishlisted = BoolText(NormalizedViewCount(e.row) = 0)

C7_OneRecordPerAcceptedRowInOrder ==
    Successful
    => /\ Len(all_records) = Len(Accepted)
       /\ \A k \in 1..Len(all_records) : RecordIsOf(all_records[k], Accepted[k])
       /\ all_records # <<>>
          => output_file = [exists |-> TRUE, header |-> fieldnames,
                            rows |-> all_records]

\* a movie row and a TV row, one record each, the movie first
C7_Witness ==
    /\ Successful
    /\ Len(read.movies) = 1
    /\ Len(read.tv_shows) = 1
    /\ Len(output_file.rows) = 2
    /\ output_file.rows[1].universe = "movie"
    /\ output_file.rows[2].universe = "tvshow"

(***************************************************************************)
(* C8.  The confirmations asked are, in order, exactly those of the rows   *)
(* that passed validation with a normalized viewCount > 0, one each, with  *)
(* the title and origin category of the row; only the last one can be      *)
(* awaited, and while it is the row it belongs to is the last row read;    *)
(* the is_done of a record is the answer given for its row, and false for  *)
(* a row that was not prompted for.                                        *)
(***************************************************************************)
ToConfirm ==
    SelectSeq(Processed,
              LAMBDA e : /\ ~Blank(e.row.title)
                         /\ ~AbortedAt(e)
                         /\ NormalizedViewCount(e.row) > 0)

ConfirmationIsOf(q, e) ==
    /\ q.title = Strip(e.row.title)
    /\ q.universe = OriginCategory(e.table)
    /\ (q.answer = "awaited") = AwaitedAt(e)
    /\ HasRecord(e) => RecordOf(e).is_done = q.answer

C8_ConfirmationPerViewedRow ==
    /\ LET rows == ToConfirm
       IN  /\ Len(prompts) = Len(rows)
           /\ \A k \in 1..Len(prompts) : ConfirmationIsOf(prompts[k], rows[k])
    /\ (pc = "confirm") = (\E k \in 1..Len(prompts) : prompts[k].answer = "awaited")
    /\ \A e \in ProcessedSet :
        (NormalizedViewCount(e.row) <= 0 /\ HasRecord(e))
        => RecordOf(e).is_done = "false"

\* two viewed rows, answered yes and no
C8_Witness ==
    /\ Len(prompts) = 2
    /\ prompts[1].answer = "true"
    /\ prompts[2].answer = "false"
    /\ Len(records) = 2
    /\ records[1].is_done = "true"
    /\ records[2].is_done = "false"

(***************************************************************************)
(* C9.  When every supplied table was processed to its end and no record   *)
(* came of it, the run ends with status 0 and the destination is what it   *)
(* was before the run: not created, not overwritten.                       *)
(***************************************************************************)
TableProcessed(t) ==
    \E n \in 0..Len(read[t]) : Printed(<<"Processed records", t, n>>)

AllTablesProcessed ==
    /\ Truthy(args.movies) \/ Truthy(args.tv_shows)
    /\ \A t \in {"movies", "tv_shows"} : Truthy(args[t]) => TableProcessed(t)

C9_NothingToWrite ==
    (pc = "exited" /\ AllTablesProcessed /\ all_records = <<>>)
    => /\ exit_status = 0
       /\ output_file = output_before

\* a table of skipped rows only, with a file of an earlier run in place
C9_Witness ==
    /\ pc = "exited"
    /\ AllTablesProcessed
    /\ all_records = <<>>
    /\ read.movies # <<>>
    /\ output_before = EarlierFile

(***************************************************************************)
(* C10.  No record, collected or written, has is_wishlisted = true         *)
(* together with is_recommended = true or is_done = true.                  *)
(***************************************************************************)
WishlistedOnly(rec) ==
    rec.is_wishlisted = "true"
    => rec.is_recommended = "false" /\ rec.is_done = "false"

C10_WishlistedExcludesRecommendedAndDone ==
    /\ \A k \in 1..Len(Emitted) : WishlistedOnly(Emitted[k])
    /\ \A k \in 1..Len(output_file.rows) : WishlistedOnly(output_file.rows[k])

\* a row with a rating of 0 and a view count of 0 gave a wishlisted record
C10_Witness ==
    /\ Len(read.movies) = 1
    /\ ~Blank(read.movies[1].userRating)
    /\ ParseFloat(read.movies[1].userRating).kind = "num"
    /\ Len(output_file.rows) = 1
    /\ output_file.rows[1].is_wishlisted = "true"

====
